---- MODULE Spec2Model ----
(***************************************************************************)
(* Model of modules/perception/camera/app/cipv_camera.cc (class Cipv):     *)
(* ego-lane construction, closest-edge geometry, lane containment, CIPV    *)
(* selection with the persisted previous index, and the per-track drop     *)
(* histories with their skip counters.                                     *)
(*                                                                         *)
(* Numbers.  Ground and image coordinates are integers (one ground unit is *)
(* half of EGO_CAR_HALF_VIRTUAL_LANE); headings are whole quarter turns,   *)
(* for which cos and sin are exactly -1, 0 or 1.  Distances are compared   *)
(* through their exact squares, kept as fractions [n, d].                  *)
(***************************************************************************)
EXTENDS Integers, Sequences, FiniteSets, TLC

(***************************************************************************)
(* Bounds of the model.                                                    *)
(***************************************************************************)
\* number of detected objects in the list handed to DetermineCipv
NumObjects == 3
\* longest object list handed to CollectDrops
MaxDropObjects == 1
\* longest motion buffer handed to CollectDrops
MaxMotion == 2
\* capacity of a trajectory buffer (a small stand-in for the header value)
DROPS_HISTORY_SIZE == 3
\* absent frames after which a track is erased (stand-in for the header value)
MAX_ALLOWED_SKIP_OBJECT == 2
\* largest velocity of CipvOptions
MaxVelocity == 3
\* largest |y| of a detected lane line
MaxLaneY == 4
\* largest entry of a matrix handed to Init
MaxEntry == 1
\* largest |y| of a footprint centre handed to the containment test
MaxCenterY == 7

(***************************************************************************)
(* Program constants.  They are declared in cipv_camera.h; lengths are in  *)
(* ground units, MAX_FLOAT is a value above every coordinate, and          *)
(* AVERAGE_FRATE_RATE is one time unit.                                    *)
(***************************************************************************)
MAX_FLOAT == 1000
EGO_CAR_HALF_VIRTUAL_LANE == 2
AVERAGE_FRATE_RATE == 1
MIN_LANE_LINE_LENGTH_FOR_CIPV_DETERMINATION == 2
MAX_DIST_OBJECT_TO_LANE_METER == 140
MAX_VEHICLE_WIDTH_METER == 10
\* for (uint32_t i = 0; i < 120; i += 5)
DynamicsTickEnd == 120
DynamicsTickStep == 5

VARIABLES
    \* ---- Cipv members
    b_image_based_cipv_,    \* mode flag, false after Init
    time_unit_,             \* set by Init
    homography_im2car_,     \* 3x3 matrix, rows of integers
    homography_car2im_,     \* its inverse as [adj |-> adjugate, det |-> determinant]
    init_result,            \* [called, result]: what the Init call returned
    \* ---- per-frame inputs owned by the caller
    lane_objects,           \* sequence of lane lines
    options,                \* [yaw_rate, velocity]
    objects,                \* sequence of objects, each with its b_cipv flag
    \* ---- DetermineCipv
    old_cipv_index,         \* static int32_t old_cipv_index
    cipv_call,              \* what the last DetermineCipv call did
    egolane_ground,         \* ground ego lane built by the last call
    \* ---- CollectDrops
    object_trackjectories_, \* track id -> sequence of <<x, y>>
    object_id_skip_count_,  \* track id -> consecutive absent frames
    drops_call,             \* what the last CollectDrops call did
    absent_run,             \* track id -> processed frames absent since last seen
    \* ---- pure geometry under test
    geo_in,                 \* [point, seg_start, seg_end, edge, lane]
    geo_out                 \* results of the geometry functions on geo_in

vars == << b_image_based_cipv_, time_unit_, homography_im2car_,
           homography_car2im_, init_result, lane_objects, options, objects,
           old_cipv_index, cipv_call, egolane_ground,
           object_trackjectories_, object_id_skip_count_, drops_call,
           absent_run, geo_in, geo_out >>

cipvMembers == << b_image_based_cipv_, time_unit_, homography_im2car_,
                  homography_car2im_, init_result >>
frameInputs == << lane_objects, options, objects >>
cipvState   == << old_cipv_index, cipv_call, egolane_ground >>
dropsState  == << object_trackjectories_, object_id_skip_count_, drops_call,
                  absent_run >>
geoState    == << geo_in, geo_out >>

(***************************************************************************)
(* Small helpers.                                                          *)
(***************************************************************************)
Abs(a) == IF a < 0 THEN -a ELSE a

Pt(x, y) == << x, y >>

\* cos and sin of a heading given in quarter turns
CosQ(q) == CASE q % 4 = 0 -> 1 [] q % 4 = 1 -> 0 [] q % 4 = 2 -> -1 [] OTHER -> 0
SinQ(q) == CASE q % 4 = 0 -> 0 [] q % 4 = 1 -> 1 [] q % 4 = 2 -> 0 [] OTHER -> -1

\* atan2(y, x) in quarter turns, for directions along an axis
Atan2Q(y, x) ==
    CASE x > 0 /\ y = 0 -> 0
      [] x = 0 /\ y > 0 -> 1
      [] x = 0 /\ y < 0 -> -1
      [] x < 0 /\ y = 0 -> 2
      [] OTHER -> 0

(***************************************************************************)
(* Cipv::Init.  Eigen's fixed-size inverse() divides the adjugate by the   *)
(* determinant without any check; the inverse is kept as that pair.        *)
(***************************************************************************)
Det3(m) ==
      m[1][1] * (m[2][2] * m[3][3] - m[2][3] * m[3][2])
    - m[1][2] * (m[2][1] * m[3][3] - m[2][3] * m[3][1])
    + m[1][3] * (m[2][1] * m[3][2] - m[2][2] * m[3][1])

Adj3(m) ==
    << << m[2][2] * m[3][3] - m[2][3] * m[3][2],
          m[1][3] * m[3][2] - m[1][2] * m[3][3],
          m[1][2] * m[2][3] - m[1][3] * m[2][2] >>,
       << m[2][3] * m[3][1] - m[2][1] * m[3][3],
          m[1][1] * m[3][3] - m[1][3] * m[3][1],
          m[1][3] * m[2][1] - m[1][1] * m[2][3] >>,
       << m[2][1] * m[3][2] - m[2][2] * m[3][1],
          m[1][2] * m[3][1] - m[1][1] * m[3][2],
          m[1][1] * m[2][2] - m[1][2] * m[2][1] >> >>

Inverse3(m) == [adj |-> Adj3(m), det |-> Det3(m)]

\* the value Init returns for a given matrix
InitReturn(homography_im2car) == TRUE

CipvInit(homography_im2car) ==
    /\ b_image_based_cipv_' = FALSE
    /\ time_unit_' = AVERAGE_FRATE_RATE
    /\ homography_im2car_' = homography_im2car
    /\ homography_car2im_' = Inverse3(homography_im2car)
    /\ init_result' = [called |-> TRUE,
                        result |-> InitReturn(homography_im2car)]

(***************************************************************************)
(* Cipv::image2ground: p_ground = H * (x, y, 1), divided by p_ground[2]    *)
(* when |p_ground[2]| > numeric_limits<double>::min().  On failure the     *)
(* outputs are not written.                                                *)
(***************************************************************************)
MatVec3(m, v) ==
    << m[1][1] * v[1] + m[1][2] * v[2] + m[1][3] * v[3],
       m[2][1] * v[1] + m[2][2] * v[2] + m[2][3] * v[3],
       m[3][1] * v[1] + m[3][2] * v[2] + m[3][3] * v[3] >>

\* a / b for b # 0 (the inputs of the model keep the quotient exact)
Quot(a, b) == IF b > 0 THEN a \div b ELSE (-a) \div (-b)

image2ground(h, image_x, image_y) ==
    LET p_ground == MatVec3(h, << image_x, image_y, 1 >>)
    IN  IF Abs(p_ground[3]) > 0
        THEN [ok |-> TRUE,
              ground_x |-> Quot(p_ground[1], p_ground[3]),
              ground_y |-> Quot(p_ground[2], p_ground[3])]
        ELSE [ok |-> FALSE, ground_x |-> 0, ground_y |-> 0]

(***************************************************************************)
(* Ego lane: GetEgoLane, MakeVirtualLane, VehicleDynamics,                 *)
(* MakeVirtualEgoLaneFromYawRate, ElongateEgoLane.                         *)
(***************************************************************************)
EmptyEgoLane == [left_line |-> << >>, right_line |-> << >>]

RECURSIVE GetEgoLaneFrom(_, _, _)
GetEgoLaneFrom(lanes, i, acc) ==
    IF i > Len(lanes) THEN acc
    ELSE
      LET l == lanes[i]
          n == Len(l.curve_image_point_set)
          short == n < MIN_LANE_LINE_LENGTH_FOR_CIPV_DETERMINATION
          pts == [j \in 1..n |-> l.curve_car_coord_point_set[j]]
      IN  IF l.pos_type = "EGO_LEFT"
          THEN IF short
               THEN GetEgoLaneFrom(lanes, i + 1,
                        [acc EXCEPT !.b_left_valid = FALSE])
               ELSE GetEgoLaneFrom(lanes, i + 1,
                        [acc EXCEPT !.b_left_valid = TRUE,
                                    !.egolane_image.left_line =
                                        @ \o l.curve_image_point_set,
                                    !.egolane_ground.left_line = @ \o pts])
          ELSE IF l.pos_type = "EGO_RIGHT"
          THEN IF short
               THEN GetEgoLaneFrom(lanes, i + 1,
                        [acc EXCEPT !.b_right_valid = FALSE])
               ELSE GetEgoLaneFrom(lanes, i + 1,
                        [acc EXCEPT !.b_right_valid = TRUE,
                                    !.egolane_image.right_line =
                                        @ \o l.curve_image_point_set,
                                    !.egolane_ground.right_line = @ \o pts])
          ELSE GetEgoLaneFrom(lanes, i + 1, acc)

\* the caller (DetermineCipv) passes empty lanes and both flags false
GetEgoLane(lanes) ==
    GetEgoLaneFrom(lanes, 1,
        [egolane_image |-> EmptyEgoLane, egolane_ground |-> EmptyEgoLane,
         b_left_valid |-> FALSE, b_right_valid |-> FALSE])

MakeVirtualLane_SameY(ref_lane_line, yaw_rate, offset_distance, image_based) ==
    IF image_based = FALSE
    THEN [i \in 1..Len(ref_lane_line) |->
             Pt(ref_lane_line[i][1], offset_distance)]
    ELSE << >>

MakeVirtualLane(ref_lane_line, yaw_rate, offset_distance, image_based) ==
    IF image_based = FALSE
    THEN [i \in 1..Len(ref_lane_line) |->
             Pt(ref_lane_line[i][1], ref_lane_line[i][2] + offset_distance)]
    ELSE << >>

\* straight model: the tick is not used
VehicleDynamics(tick, yaw_rate, velocity, time_unit) ==
    Pt(time_unit * velocity, 0)

DynamicsSteps == (DynamicsTickEnd + DynamicsTickStep - 1) \div DynamicsTickStep

MakeVirtualEgoLaneFromYawRate(yaw_rate, velocity, offset_distance, time_unit, image_based) ==
    IF image_based = FALSE
    THEN [left_line |->
            [k \in 1..DynamicsSteps |->
               LET xy == VehicleDynamics((k - 1) * DynamicsTickStep, yaw_rate,
                                         velocity, time_unit)
               IN  Pt(xy[1], xy[2] + offset_distance)],
          right_line |->
            [k \in 1..DynamicsSteps |->
               LET xy == VehicleDynamics((k - 1) * DynamicsTickStep, yaw_rate,
                                         velocity, time_unit)
               IN  Pt(xy[1], xy[2] - offset_distance)]]
    ELSE EmptyEgoLane

ElongateEgoLane(b_left_valid, b_right_valid, yaw_rate, velocity, ground, time_unit, image_based) ==
    IF b_left_valid /\ b_right_valid
    THEN ground
    ELSE IF ~b_left_valid /\ b_right_valid
    THEN [ground EXCEPT !.left_line =
            MakeVirtualLane(ground.right_line, yaw_rate,
                -(Abs(ground.right_line[1][2]) + EGO_CAR_HALF_VIRTUAL_LANE),
                image_based)]
    ELSE IF b_left_valid /\ ~b_right_valid
    THEN [ground EXCEPT !.right_line =
            MakeVirtualLane(ground.left_line, yaw_rate,
                Abs(ground.left_line[1][2]) + EGO_CAR_HALF_VIRTUAL_LANE,
                image_based)]
    ELSE MakeVirtualEgoLaneFromYawRate(yaw_rate, velocity,
             EGO_CAR_HALF_VIRTUAL_LANE, time_unit, image_based)

\* the two calls DetermineCipv makes to obtain the ground ego lane
BuildEgoLaneGround(lanes, opts, time_unit, image_based) ==
    LET g == GetEgoLane(lanes)
    IN  ElongateEgoLane(g.b_left_valid, g.b_right_valid, opts.yaw_rate,
                        opts.velocity, g.egolane_ground, time_unit,
                        image_based)

(***************************************************************************)
(* Cipv::FindClosestEdgeOfObjectGround.  The return value of image2ground  *)
(* is not looked at: when it fails, center_x and center_y are read         *)
(* uninitialized, so the footprint centre is any value.                    *)
(***************************************************************************)
SIZE_EPSILON == 1

\* values an uninitialized float may hold, as far as the model looks
UninitValues == {-8, 0, 8}

FootprintCenters(h, object) ==
    LET rect == object.box
        footprint_x == rect.x + rect.width \div 2
        footprint_y == rect.y + rect.height
        g == image2ground(h, footprint_x, footprint_y)
    IN  IF g.ok THEN { Pt(g.ground_x, g.ground_y) }
        ELSE { Pt(x, y) : x \in UninitValues, y \in UninitValues }

ObjectTheta(object) ==
    LET pos == object.local_center
        theta_ray == Atan2Q(pos[1], pos[3])
        theta == object.alpha + theta_ray
    IN  IF theta > 1 THEN theta - 1 ELSE theta

ObjectCorners(object, center) ==
    LET x1 == object.size[1] \div 2
        x2 == -x1
        y1 == object.size[2] \div 2
        y2 == -y1
        cos_theta == CosQ(ObjectTheta(object))
        sin_theta == SinQ(ObjectTheta(object))
    IN  << Pt(x2 * cos_theta + y1 * sin_theta + center[1],
              y1 * cos_theta - x2 * sin_theta + center[2]),
           Pt(x2 * cos_theta + y2 * sin_theta + center[1],
              y2 * cos_theta - x2 * sin_theta + center[2]),
           Pt(x1 * cos_theta + y1 * sin_theta + center[1],
              y1 * cos_theta - x1 * sin_theta + center[2]),
           Pt(x1 * cos_theta + y2 * sin_theta + center[1],
              y2 * cos_theta - x1 * sin_theta + center[2]) >>

\* the loop over the four corners; indices are the code's 0..3
RECURSIVE ClosestCorners(_, _, _)
ClosestCorners(p, i, acc) ==
    IF i > 3 THEN acc
    ELSE IF p[i + 1][1] <= acc.closest_x
    THEN ClosestCorners(p, i + 1,
            [closest_x |-> p[i + 1][1], closest_index |-> i,
             second_closest_x |-> acc.closest_x,
             second_closest_index |-> acc.closest_index])
    ELSE IF p[i + 1][1] <= acc.second_closest_x
    THEN ClosestCorners(p, i + 1,
            [acc EXCEPT !.second_closest_x = p[i + 1][1],
                        !.second_closest_index = i])
    ELSE ClosestCorners(p, i + 1, acc)

\* the same without the filter on objects behind the ego car
FindClosestEdge_NoFrontFilter(object, center) ==
    IF /\ object.size[1] < SIZE_EPSILON
       /\ object.size[2] < SIZE_EPSILON
       /\ object.size[3] < SIZE_EPSILON
    THEN [ok |-> FALSE, start_point |-> Pt(0, 0), end_point |-> Pt(0, 0)]
    ELSE
      LET p == ObjectCorners(object, center)
          c == ClosestCorners(p, 0,
                  [closest_x |-> MAX_FLOAT, closest_index |-> -1,
                   second_closest_x |-> MAX_FLOAT - 1,
                   second_closest_index |-> -1])
          pc == p[c.closest_index + 1]
          ps == p[c.second_closest_index + 1]
      IN  [ok |-> TRUE,
           start_point |-> IF pc[2] >= ps[2] THEN pc ELSE ps,
           end_point   |-> IF pc[2] >= ps[2] THEN ps ELSE pc]

FindClosestEdgeOfObjectGround(object, center) ==
    IF /\ object.size[1] < SIZE_EPSILON
       /\ object.size[2] < SIZE_EPSILON
       /\ object.size[3] < SIZE_EPSILON
    THEN [ok |-> FALSE, start_point |-> Pt(0, 0), end_point |-> Pt(0, 0)]
    ELSE
      LET p == ObjectCorners(object, center)
          c == ClosestCorners(p, 0,
                  [closest_x |-> MAX_FLOAT, closest_index |-> -1,
                   second_closest_x |-> MAX_FLOAT - 1,
                   second_closest_index |-> -1])
          pc == p[c.closest_index + 1]
          ps == p[c.second_closest_index + 1]
      IN  [ok |-> ~(pc[1] < 0),
           start_point |-> IF pc[2] >= ps[2] THEN pc ELSE ps,
           end_point   |-> IF pc[2] >= ps[2] THEN ps ELSE pc]

(***************************************************************************)
(* Distance from a point to a line segment, as an exact square [n, d];     *)
(* fails on a zero-length segment.                                         *)
(***************************************************************************)
\* common::math::LineSegment2d::DistanceTo, squared: the distance to the
\* nearer end when the projection falls outside the segment, the
\* perpendicular distance otherwise
SegmentDistanceTo(point, seg_start, seg_end) ==
    LET dx == seg_end[1] - seg_start[1]
        dy == seg_end[2] - seg_start[2]
        x0 == point[1] - seg_start[1]
        y0 == point[2] - seg_start[2]
        x1 == point[1] - seg_end[1]
        y1 == point[2] - seg_end[2]
        proj == x0 * dx + y0 * dy
        cross == x0 * dy - y0 * dx
    IN  IF proj <= 0
        THEN [ok |-> TRUE, n |-> x0 * x0 + y0 * y0, d |-> 1]
        ELSE IF proj >= dx * dx + dy * dy
        THEN [ok |-> TRUE, n |-> x1 * x1 + y1 * y1, d |-> 1]
        ELSE [ok |-> TRUE, n |-> cross * cross, d |-> dx * dx + dy * dy]

DistanceFromPointToLineSegment(point, line_seg_start_point, line_seg_end_point) ==
    LET dx == line_seg_end_point[1] - line_seg_start_point[1]
        dy == line_seg_end_point[2] - line_seg_start_point[2]
        length_sqr == dx * dx + dy * dy
    IN  IF length_sqr <= 0
        THEN [ok |-> FALSE, n |-> 0, d |-> 1]
        ELSE SegmentDistanceTo(point, line_seg_start_point, line_seg_end_point)

\* a < b for two distances given by their squares
DistLess(a, b) == a.n * b.d < b.n * a.d

DistMax == [ok |-> TRUE, n |-> MAX_FLOAT * MAX_FLOAT, d |-> 1]

(***************************************************************************)
(* Cipv::IsPointLeftOfLine and Cipv::AreDistancesSane.                     *)
(***************************************************************************)
CrossProduct(point, line_seg_start_point, line_seg_end_point) ==
      (line_seg_end_point[1] - line_seg_start_point[1])
          * (point[2] - line_seg_start_point[2])
    - (line_seg_end_point[2] - line_seg_start_point[2])
          * (point[1] - line_seg_start_point[1])

IsPointLeftOfLine_OrOn(point, line_seg_start_point, line_seg_end_point) ==
    CrossProduct(point, line_seg_start_point, line_seg_end_point) >= 0

IsPointLeftOfLine(point, line_seg_start_point, line_seg_end_point) ==
    CrossProduct(point, line_seg_start_point, line_seg_end_point) > 0

AreDistancesSane(start_right, start_left, end_right, end_left) ==
    IF start_right > MAX_DIST_OBJECT_TO_LANE_METER
    THEN FALSE
    ELSE IF start_left > MAX_DIST_OBJECT_TO_LANE_METER
    THEN FALSE
    ELSE IF end_right > MAX_DIST_OBJECT_TO_LANE_METER
    THEN FALSE
    ELSE IF end_left > MAX_DIST_OBJECT_TO_LANE_METER
    THEN FALSE
    ELSE IF Abs(start_right
                - end_right) > MAX_VEHICLE_WIDTH_METER
    THEN FALSE
    ELSE IF Abs(end_left
                - start_left) > MAX_VEHICLE_WIDTH_METER
    THEN FALSE
    ELSE TRUE

(***************************************************************************)
(* Cipv::IsObjectInTheLaneGround.                                          *)
(***************************************************************************)
\* the loop over the segments of a lane line; indices are the code's 0..
RECURSIVE ClosestSegment(_, _, _, _)
ClosestSegment(point, line_point, i, acc) ==
    IF ~(i + 1 < Len(line_point)) THEN acc
    ELSE
      LET distance == DistanceFromPointToLineSegment(point, line_point[i + 1],
                                                     line_point[i + 2])
      IN  IF distance.ok /\ DistLess(distance, acc.shortest_distance)
          THEN ClosestSegment(point, line_point, i + 1,
                   [closest_index |-> i, shortest_distance |-> distance])
          ELSE ClosestSegment(point, line_point, i + 1, acc)

NoSegment == [closest_index |-> -1, shortest_distance |-> DistMax]

\* the part of IsObjectInTheLaneGround after the closest edge is known
EdgeInTheLaneGround(edge, lane) ==
    LET l == ClosestSegment(edge.end_point, lane.left_line, 0, NoSegment)
        b_left_lane_clear ==
            /\ l.closest_index >= 0
            /\ IsPointLeftOfLine(edge.end_point,
                   lane.left_line[l.closest_index + 1],
                   lane.left_line[l.closest_index + 2]) = FALSE
        r == ClosestSegment(edge.start_point, lane.right_line, 0, NoSegment)
        b_right_lane_clear ==
            /\ r.closest_index >= 0
            /\ IsPointLeftOfLine(edge.start_point,
                   lane.right_line[r.closest_index + 1],
                   lane.right_line[r.closest_index + 2]) = TRUE
        \* the four shortest_distance_* locals are never assigned
        sane == AreDistancesSane(0, 0, 0, 0)
    IN  IF ~edge.ok
        THEN [b_left_lane_clear |-> FALSE, b_right_lane_clear |-> FALSE,
              left_index |-> -1, right_index |-> -1, result |-> FALSE]
        ELSE IF Len(lane.left_line) <= 1
        THEN [b_left_lane_clear |-> FALSE, b_right_lane_clear |-> FALSE,
              left_index |-> -1, right_index |-> -1, result |-> FALSE]
        ELSE IF Len(lane.right_line) <= 1
        THEN [b_left_lane_clear |-> b_left_lane_clear,
              b_right_lane_clear |-> FALSE,
              left_index |-> l.closest_index, right_index |-> -1,
              result |-> FALSE]
        ELSE [b_left_lane_clear |-> b_left_lane_clear,
              b_right_lane_clear |-> b_right_lane_clear,
              left_index |-> l.closest_index,
              right_index |-> r.closest_index,
              result |-> IF sane
                         THEN b_left_lane_clear /\ b_right_lane_clear
                         ELSE FALSE]

IsObjectInTheLaneGround(object, center, lane) ==
    EdgeInTheLaneGround(FindClosestEdgeOfObjectGround(object, center),
                        lane).result

IsObjectInTheLaneImage(object) == TRUE

IsObjectInTheLane(object, center, lane, image_based) ==
    IF image_based = TRUE
    THEN IsObjectInTheLaneImage(object)
    ELSE IsObjectInTheLaneGround(object, center, lane)

(***************************************************************************)
(* Cipv::DetermineCipv.                                                    *)
(***************************************************************************)
Flags(objs) == [i \in 1..Len(objs) |-> objs[i].b_cipv]

\* the selection loop; indices are the code's 0.., -1 is "no cipv"
RECURSIVE SelectCipv_LastWins(_, _, _, _)
SelectCipv_LastWins(objs, in_lane, i, cipv_index) ==
    IF ~(i < Len(objs)) THEN cipv_index
    ELSE IF in_lane[i + 1]
            /\ (cipv_index < 0
                \/ objs[i + 1].center[1] <= objs[cipv_index + 1].center[1])
    THEN SelectCipv_LastWins(objs, in_lane, i + 1, i)
    ELSE SelectCipv_LastWins(objs, in_lane, i + 1, cipv_index)

RECURSIVE SelectCipvFrom(_, _, _, _)
SelectCipvFrom(objs, in_lane, i, cipv_index) ==
    IF ~(i < Len(objs)) THEN cipv_index
    ELSE IF in_lane[i + 1]
            /\ (cipv_index < 0
                \/ objs[i + 1].center[1] < objs[cipv_index + 1].center[1])
    THEN SelectCipvFrom(objs, in_lane, i + 1, i)
    ELSE SelectCipvFrom(objs, in_lane, i + 1, cipv_index)

SelectCipv(objs, in_lane) == SelectCipvFrom(objs, in_lane, 0, -1)

\* does the call reach "(*objects)[old_cipv_index]->b_cipv = false" ?
ClearsOld_Always(old, cipv_index) == cipv_index >= 0 /\ old >= 0

ClearsOld(old, cipv_index) ==
    cipv_index >= 0 /\ old >= 0 /\ old # cipv_index

\* The flags after that statement.  With old_cipv_index beyond the list the
\* write goes through whatever lies behind the vector: nothing visible, or
\* some other flag cleared.
FlagsAfterClear(flags, old, cipv_index) ==
    IF ~ClearsOld(old, cipv_index) THEN { flags }
    ELSE IF old + 1 \in DOMAIN flags
    THEN { [flags EXCEPT ![old + 1] = FALSE] }
    ELSE { flags } \cup { [flags EXCEPT ![j] = FALSE] : j \in DOMAIN flags }

FlagsAfterSet(flags, cipv_index) ==
    IF cipv_index >= 0 THEN [flags EXCEPT ![cipv_index + 1] = TRUE]
    ELSE flags

\* object->b_cipv = flag; the mutant writes the track id as well
SetCipvFlag_AndTrack(object, flag) ==
    [object EXCEPT !.b_cipv = flag, !.track_id = IF flag THEN 0 ELSE @]

SetCipvFlag(object, flag) == [object EXCEPT !.b_cipv = flag]

NoCipvCall ==
    [valid |-> FALSE, pre |-> << >>, mid |-> << >>, in_lane |-> << >>,
     center_x |-> << >>, centers |-> << >>, old |-> -2, cipv_index |-> -1]

\* the footprint centres the calls of one frame may see, one per object
RECURSIVE FrameCenters(_, _, _)
FrameCenters(h, objs, i) ==
    IF i > Len(objs) THEN { << >> }
    ELSE { << c >> \o rest : c \in FootprintCenters(h, objs[i]),
                             rest \in FrameCenters(h, objs, i + 1) }

DetermineCipv ==
    /\ \E lane \in { BuildEgoLaneGround(lane_objects, options, time_unit_,
                                        b_image_based_cipv_) },
          centers \in FrameCenters(homography_im2car_, objects, 1) :
         \E in_lane \in { [i \in 1..Len(objects) |->
                            IsObjectInTheLane(objects[i], centers[i], lane,
                                              b_image_based_cipv_)] } :
          \E cipv_index \in { SelectCipv(objects, in_lane) } :
           \E mid \in FlagsAfterClear(Flags(objects), old_cipv_index,
                                      cipv_index) :
             /\ objects' =
                  [i \in 1..Len(objects) |->
                     SetCipvFlag(objects[i],
                                 FlagsAfterSet(mid, cipv_index)[i])]
             /\ old_cipv_index' = cipv_index
             /\ cipv_call' =
                  [valid |-> TRUE, pre |-> Flags(objects), mid |-> mid,
                   in_lane |-> in_lane,
                   center_x |-> [i \in 1..Len(objects) |->
                                    objects[i].center[1]],
                   centers |-> centers,
                   old |-> old_cipv_index, cipv_index |-> cipv_index]
             /\ egolane_ground' = lane
    /\ UNCHANGED << cipvMembers, lane_objects, options, dropsState, geoState >>

(***************************************************************************)
(* The caller between two frames: the tracker rewrites an object's         *)
(* measurements (the flag is carried over), the lane detector delivers new *)
(* lane lines.                                                             *)
(***************************************************************************)
\* image -> ground used by the session: ground_x = 20 - v, ground_y = 10 - u
SessionHomography == << << 0, -1, 20 >>, << -1, 0, 10 >>, << 0, 0, 1 >> >>

Measurement(size, center, box, alpha, local_center) ==
    [size |-> size, center |-> center, box |-> box, alpha |-> alpha,
     local_center |-> local_center]

Box(x, y, w, h) == [x |-> x, y |-> y, width |-> w, height |-> h]

\* in the lane at x = 6; in the lane at x = 9; beside the lane but nearer;
\* in the lane at x = 6 and turned by a quarter
CipvMeasurements ==
    { Measurement(<< 4, 2, 2 >>, Pt(6, 0), Box(8, 10, 4, 4), 0, << 0, 0, 1 >>),
      Measurement(<< 4, 2, 2 >>, Pt(9, 0), Box(8, 7, 4, 4), 0, << 0, 0, 1 >>),
      Measurement(<< 4, 2, 2 >>, Pt(3, 8), Box(0, 13, 4, 4), 0, << 0, 0, 1 >>),
      Measurement(<< 2, 4, 2 >>, Pt(6, 0), Box(8, 10, 4, 4), 1, << 0, 0, 1 >>) }

WithMeasurement(object, m) ==
    [track_id |-> object.track_id, b_cipv |-> object.b_cipv,
     size |-> m.size, center |-> m.center, box |-> m.box, alpha |-> m.alpha,
     local_center |-> m.local_center]

LaneLine(pos_type, points) ==
    [pos_type |-> pos_type, curve_image_point_set |-> points,
     curve_car_coord_point_set |-> points]

StraightLine(y, n) == [j \in 1..n |-> Pt(10 * (j - 1), y)]

\* both lines; only the right line; a left line that is too short; nothing
CipvLaneInputs ==
    { << LaneLine("EGO_LEFT", StraightLine(4, 3)),
         LaneLine("EGO_RIGHT", StraightLine(-4, 3)) >>,
      << LaneLine("OTHER", StraightLine(8, 3)),
         LaneLine("EGO_RIGHT", StraightLine(-4, 3)) >>,
      << LaneLine("EGO_LEFT", StraightLine(4, 1)) >>,
      << >> }

UpdateObject ==
    /\ \E i \in 1..Len(objects), m \in CipvMeasurements :
          objects' = [objects EXCEPT ![i] = WithMeasurement(@, m)]
    /\ cipv_call' = NoCipvCall
    /\ egolane_ground' = EmptyEgoLane
    /\ UNCHANGED << cipvMembers, lane_objects, options, old_cipv_index,
                    dropsState, geoState >>

UpdateLanes ==
    /\ \E l \in CipvLaneInputs : lane_objects' = l
    /\ cipv_call' = NoCipvCall
    /\ egolane_ground' = EmptyEgoLane
    /\ UNCHANGED << cipvMembers, options, objects, old_cipv_index,
                    dropsState, geoState >>

(***************************************************************************)
(* Cipv::CollectDrops.  object_trackjectories_ is a std::map from track id *)
(* to a boost::circular_buffer of capacity DROPS_HISTORY_SIZE,             *)
(* object_id_skip_count_ a std::map from track id to a counter.            *)
(***************************************************************************)
MapSet(f, k, v) == [x \in DOMAIN f \cup {k} |-> IF x = k THEN v ELSE f[x]]
MapErase(f, k) == [x \in DOMAIN f \ {k} |-> f[x]]

\* operator[] of the two maps: a missing key reads as a fresh value
TrajAt(traj, id) == IF id \in DOMAIN traj THEN traj[id] ELSE << >>
SkipAt(skip, id) == IF id \in DOMAIN skip THEN skip[id] ELSE 0

\* circular_buffer::push_back
PushBack_Unbounded(buf, point, capacity) == Append(buf, point)

PushBack(buf, point, capacity) ==
    IF Len(buf) >= capacity
    THEN IF capacity = 0 THEN buf ELSE Append(Tail(buf), point)
    ELSE Append(buf, point)

\* if (motion_size <= 0) return false;
MotionEmpty_OnlyNegative(motion_size) == motion_size < 0

MotionEmpty(motion_size) == motion_size <= 0

\* the indices into the motion buffer used while re-projecting a buffer of
\* the given size: it runs from size - 1 down to 1, count from 0
ReprojectIndices(size, motion_size) ==
    { motion_size - count - 1 :
        count \in { c \in 0..(size - 2) :
                      ~(c >= DROPS_HISTORY_SIZE \/ c > motion_size) } }

\* the loop over the objects of the frame
RECURSIVE SeeObjects(_, _, _, _)
SeeObjects(objs, i, motion_size, acc) ==
    IF i > Len(objs) THEN acc
    ELSE
      LET cur_id == objs[i].track_id
          buf == PushBack(TrajAt(acc.traj, cur_id),
                          Pt(objs[i].center[1], objs[i].center[2]),
                          DROPS_HISTORY_SIZE)
      IN  SeeObjects(objs, i + 1, motion_size,
            [traj |-> MapSet(acc.traj, cur_id, buf),
             skip |-> MapSet(acc.skip, cur_id, 0),
             motion_index |-> acc.motion_index
                 \cup ReprojectIndices(Len(buf), motion_size)])

TrackIds(objs) == { objs[i].track_id : i \in 1..Len(objs) }

\* map iteration order; 0 stands for end()
FirstKey(traj) ==
    IF DOMAIN traj = {} THEN 0
    ELSE CHOOSE k \in DOMAIN traj : \A j \in DOMAIN traj : k <= j

NextKey(traj, pos) ==
    LET later == { k \in DOMAIN traj : k > pos }
    IN  IF later = {} THEN 0
        ELSE CHOOSE k \in later : \A j \in later : k <= j

\* Where the range-for continues after object_trackjectories_.erase(obj_id)
\* erased the element its iterator points to: incrementing that iterator is
\* undefined; it may land on any remaining element or on end().
NextKeyAfterErase(traj, pos) == DOMAIN traj \cup {0}

\* if (object_id_skip_count_[obj_id] >= MAX_ALLOWED_SKIP_OBJECT)
SkipLimitReached_Above(count) == count > MAX_ALLOWED_SKIP_OBJECT

SkipLimitReached(count) == count >= MAX_ALLOWED_SKIP_OBJECT

\* the loop over object_trackjectories_; yields the set of possible results
RECURSIVE SkipAndErase(_, _, _, _)
SkipAndErase(traj, skip, pos, ids) ==
    IF pos = 0 THEN { [traj |-> traj, skip |-> skip] }
    ELSE IF pos \in ids \/ ~(Len(TrajAt(traj, pos)) > 0)
    THEN SkipAndErase(traj, skip, NextKey(traj, pos), ids)
    ELSE
      LET count == SkipAt(skip, pos) + 1
      IN  IF SkipLimitReached(count)
          THEN UNION { SkipAndErase(MapErase(traj, pos), MapErase(skip, pos),
                                    nxt, ids) :
                          nxt \in NextKeyAfterErase(MapErase(traj, pos), pos) }
          ELSE SkipAndErase(traj, MapSet(skip, pos, count),
                            NextKey(traj, pos), ids)

\* frames a track has been absent in a row, counted by processed frames and
\* kept at MAX_ALLOWED_SKIP_OBJECT once it gets there
AbsentRunAfter(run, ids) ==
    [id \in DOMAIN run \cup ids |->
        IF id \in ids THEN 0
        ELSE IF run[id] >= MAX_ALLOWED_SKIP_OBJECT THEN run[id]
        ELSE run[id] + 1]

CollectDrops ==
    /\ \E motion_size \in 0..MaxMotion :
         IF MotionEmpty(motion_size)
         THEN /\ drops_call' = [valid |-> TRUE, result |-> FALSE,
                                motion_size |-> motion_size,
                                motion_index |-> {},
                                pre_traj |-> object_trackjectories_,
                                pre_skip |-> object_id_skip_count_]
              /\ UNCHANGED << object_trackjectories_, object_id_skip_count_,
                              absent_run >>
         ELSE \E seen \in { SeeObjects(objects, 1, motion_size,
                                [traj |-> object_trackjectories_,
                                 skip |-> object_id_skip_count_,
                                 motion_index |-> {}]) } :
               \E out \in SkipAndErase(seen.traj, seen.skip,
                                       FirstKey(seen.traj),
                                       TrackIds(objects)) :
                 /\ object_trackjectories_' = out.traj
                 /\ object_id_skip_count_' = out.skip
                 /\ absent_run' = AbsentRunAfter(absent_run, TrackIds(objects))
                 /\ drops_call' = [valid |-> TRUE, result |-> TRUE,
                                   motion_size |-> motion_size,
                                   motion_index |-> seen.motion_index,
                                   pre_traj |-> object_trackjectories_,
                                   pre_skip |-> object_id_skip_count_]
    /\ UNCHANGED << cipvMembers, frameInputs, cipvState, geoState >>

\* the tracker hands over the object list of the next frame
DropMeasurements ==
    { Measurement(<< 4, 2, 2 >>, Pt(6, 0), Box(8, 10, 4, 4), 0, << 0, 0, 1 >>),
      Measurement(<< 4, 2, 2 >>, Pt(9, 0), Box(8, 7, 4, 4), 0, << 0, 0, 1 >>) }

\* the track ids the tracker hands out
DropTrackIds == {1, 2}

DropObjects ==
    { WithMeasurement([track_id |-> id, b_cipv |-> FALSE], m) :
        id \in DropTrackIds, m \in DropMeasurements }

DropObjectLists == UNION { [1..n -> DropObjects] : n \in 0..MaxDropObjects }

NoDropsCall ==
    [valid |-> FALSE, result |-> FALSE, motion_size |-> 0, motion_index |-> {},
     pre_traj |-> [k \in {} |-> 0], pre_skip |-> [k \in {} |-> 0]]

TrackerFrame ==
    /\ objects' \in DropObjectLists
    /\ drops_call' = NoDropsCall
    /\ UNCHANGED << cipvMembers, lane_objects, options, cipvState,
                    object_trackjectories_, object_id_skip_count_, absent_run,
                    geoState >>

(***************************************************************************)
(* Initial values shared by the specifications.                            *)
(***************************************************************************)
EmptyMap == [k \in {} |-> 0]

NoGeoIn == [kind |-> "none"]
NoGeoOut == [kind |-> "none"]

\* the members after Init(SessionHomography)
MembersInitialized ==
    /\ b_image_based_cipv_ = FALSE
    /\ time_unit_ = AVERAGE_FRATE_RATE
    /\ homography_im2car_ = SessionHomography
    /\ homography_car2im_ = Inverse3(SessionHomography)
    /\ init_result = [called |-> TRUE,
                       result |-> InitReturn(SessionHomography)]

CipvIdle ==
    /\ old_cipv_index = -2
    /\ cipv_call = NoCipvCall
    /\ egolane_ground = EmptyEgoLane

DropsIdle ==
    /\ object_trackjectories_ = EmptyMap
    /\ object_id_skip_count_ = EmptyMap
    /\ drops_call = NoDropsCall
    /\ absent_run = EmptyMap

GeoIdle ==
    /\ geo_in = NoGeoIn
    /\ geo_out = NoGeoOut

(***************************************************************************)
(* SpecCipv: DetermineCipv called frame after frame on one object list     *)
(* whose flags start false and are carried over.                           *)
(***************************************************************************)
InitCipv ==
    /\ MembersInitialized
    /\ lane_objects \in CipvLaneInputs
    /\ options = [yaw_rate |-> 0, velocity |-> MaxVelocity]
    /\ \E m \in CipvMeasurements :
          objects = [i \in 1..NumObjects |->
                        WithMeasurement([track_id |-> i, b_cipv |-> FALSE], m)]
    /\ CipvIdle
    /\ DropsIdle
    /\ GeoIdle

NextCipv == UpdateObject \/ UpdateLanes \/ DetermineCipv

SpecCipv == InitCipv /\ [][NextCipv]_vars

FlaggedObjects == { i \in 1..Len(objects) : objects[i].b_cipv }

\* C1: after every DetermineCipv call of a session that started with all
\* flags false, at most one object of the list has its CIPV flag true.
SingleSelection ==
    cipv_call.valid => Cardinality(FlaggedObjects) <= 1

\* C2: when a call selects the object the previous call selected, that
\* object's flag was true on entry, is still true after the clearing step and
\* on return, and no call that selects an object turns any other flag true.
Hysteresis ==
    (cipv_call.valid /\ cipv_call.cipv_index >= 0) =>
        LET c == cipv_call.cipv_index + 1
        IN  /\ objects[c].b_cipv
            /\ \A j \in 1..Len(objects) :
                  (j # c /\ objects[j].b_cipv) => cipv_call.pre[j]
            /\ cipv_call.old = cipv_call.cipv_index =>
                  /\ cipv_call.pre[c]
                  /\ cipv_call.mid[c]

\* a call that selected the object the previous call had selected
HysteresisWitness ==
    /\ cipv_call.valid
    /\ cipv_call.cipv_index >= 0
    /\ cipv_call.old = cipv_call.cipv_index
    /\ objects[cipv_call.cipv_index + 1].b_cipv

\* C3: in a call where some object is contained, the flagged object is a
\* contained object of minimal center x, the one of lowest index among them.
NearestContainedSelected ==
    (cipv_call.valid /\ \E i \in 1..Len(objects) : cipv_call.in_lane[i]) =>
        LET c == cipv_call.cipv_index + 1
        IN  /\ c \in 1..Len(objects)
            /\ cipv_call.in_lane[c]
            /\ objects[c].b_cipv
            /\ \A j \in 1..Len(objects) :
                  cipv_call.in_lane[j] =>
                     /\ cipv_call.center_x[c] <= cipv_call.center_x[j]
                     /\ (j < c => cipv_call.center_x[c] < cipv_call.center_x[j])

\* two contained objects tie for the smallest x and the first one is flagged,
\* while a third, farther one is contained as well
NearestContainedWitness ==
    /\ cipv_call.valid
    /\ \E i, j, k \in 1..Len(objects) :
          /\ i < j
          /\ cipv_call.in_lane[i] /\ cipv_call.in_lane[j]
          /\ cipv_call.in_lane[k]
          /\ cipv_call.center_x[i] = cipv_call.center_x[j]
          /\ cipv_call.center_x[k] > cipv_call.center_x[i]
          /\ cipv_call.cipv_index = i - 1
          /\ objects[i].b_cipv

(***************************************************************************)
(* SpecProj: DetermineCipv called frame after frame under a homography     *)
(* that sends the pixel column u = 9 to infinity, on objects some of which *)
(* have their bottom centre on that column.                                *)
(***************************************************************************)
\* ground_x = (20 - v) / (u - 9), ground_y = (10 - u) / (u - 9)
ProjHomography == << << 0, -1, 20 >>, << -1, 0, 10 >>, << 1, 0, -9 >> >>

\* in the lane at x = 6; bottom centre on the column u = 9
ProjMeasurements ==
    { Measurement(<< 4, 2, 2 >>, Pt(6, 0), Box(8, 10, 4, 4), 0, << 0, 0, 1 >>),
      Measurement(<< 4, 2, 2 >>, Pt(4, 0), Box(7, 10, 4, 4), 0,
                  << 0, 0, 1 >>) }

\* the tracks of the session, in list order
ProjTrackIds == {1, 2}

UpdateProjObject ==
    /\ \E i \in 1..Len(objects), m \in ProjMeasurements :
          objects' = [objects EXCEPT ![i] = WithMeasurement(@, m)]
    /\ cipv_call' = NoCipvCall
    /\ egolane_ground' = EmptyEgoLane
    /\ UNCHANGED << cipvMembers, lane_objects, options, old_cipv_index,
                    dropsState, geoState >>

InitProj ==
    /\ b_image_based_cipv_ = FALSE
    /\ time_unit_ = AVERAGE_FRATE_RATE
    /\ homography_im2car_ = ProjHomography
    /\ homography_car2im_ = Inverse3(ProjHomography)
    /\ init_result = [called |-> TRUE, result |-> InitReturn(ProjHomography)]
    /\ lane_objects \in CipvLaneInputs
    /\ options = [yaw_rate |-> 0, velocity |-> MaxVelocity]
    /\ \E m \in ProjMeasurements :
          objects = [i \in ProjTrackIds |->
                        WithMeasurement([track_id |-> i, b_cipv |-> FALSE], m)]
    /\ CipvIdle
    /\ DropsIdle
    /\ GeoIdle

NextProj == UpdateProjObject \/ UpdateLanes \/ DetermineCipv

SpecProj == InitProj /\ [][NextProj]_vars

\* image2ground fails on the bottom centre of the object's box
ProjectionDegenerate(h, object) ==
    LET w == h[3][1] * (object.box.x + object.box.width \div 2)
             + h[3][2] * (object.box.y + object.box.height) + h[3][3]
    IN  w = 0

\* C12: in every DetermineCipv call, an object whose bottom-centre pixel has
\* a degenerate ground projection is not reported in the lane and is not the
\* object whose flag the call sets.
DegenerateProjectionExcluded ==
    cipv_call.valid =>
        \A i \in 1..Len(objects) :
            ProjectionDegenerate(homography_im2car_, objects[i]) =>
                /\ ~cipv_call.in_lane[i]
                /\ cipv_call.cipv_index # i - 1

(***************************************************************************)
(* SpecUnusable: DetermineCipv called frame after frame on objects some of *)
(* which cannot be used: no size, or behind the car.                       *)
(***************************************************************************)
\* in the lane at x = 6; no size, in the lane and nearest; nearest corner
\* behind the car, centre ahead of it; entirely behind the car
UnusableMeasurements ==
    { Measurement(<< 4, 2, 2 >>, Pt(6, 0), Box(8, 10, 4, 4), 0, << 0, 0, 1 >>),
      Measurement(<< 0, 0, 0 >>, Pt(2, 0), Box(8, 10, 4, 4), 0, << 0, 0, 1 >>),
      Measurement(<< 4, 2, 2 >>, Pt(1, 0), Box(8, 15, 4, 4), 0, << 0, 0, 1 >>),
      Measurement(<< 4, 2, 2 >>, Pt(-4, 0), Box(8, 20, 4, 4), 0,
                  << 0, 0, 1 >>) }

UpdateUnusableObject ==
    /\ \E i \in 1..Len(objects), m \in UnusableMeasurements :
          objects' = [objects EXCEPT ![i] = WithMeasurement(@, m)]
    /\ cipv_call' = NoCipvCall
    /\ egolane_ground' = EmptyEgoLane
    /\ UNCHANGED << cipvMembers, lane_objects, options, old_cipv_index,
                    dropsState, geoState >>

InitUnusable ==
    /\ MembersInitialized
    /\ lane_objects \in CipvLaneInputs
    /\ options = [yaw_rate |-> 0, velocity |-> MaxVelocity]
    /\ \E m \in UnusableMeasurements :
          objects = [i \in 1..NumObjects |->
                        WithMeasurement([track_id |-> i, b_cipv |-> FALSE], m)]
    /\ CipvIdle
    /\ DropsIdle
    /\ GeoIdle

NextUnusable == UpdateUnusableObject \/ UpdateLanes \/ DetermineCipv

SpecUnusable == InitUnusable /\ [][NextUnusable]_vars

SizeDegenerate(object) ==
    \A k \in 1..3 : object.size[k] < SIZE_EPSILON

\* smallest forward x among the four footprint corners
NearestCornerX(object, center) ==
    LET p == ObjectCorners(object, center)
    IN  CHOOSE x \in { p[k][1] : k \in 1..4 } :
            \A k \in 1..4 : x <= p[k][1]

Unusable(object, center) ==
    SizeDegenerate(object) \/ NearestCornerX(object, center) < 0

\* C14: in ground mode, an object without size or with its nearest footprint
\* corner behind the car is not reported in the lane and is not the object
\* whose flag the call sets, whatever the lanes and the other objects.
UnusableNeverSelected ==
    (cipv_call.valid /\ b_image_based_cipv_ = FALSE) =>
        \A i \in 1..Len(objects) :
            Unusable(objects[i], cipv_call.centers[i]) =>
                /\ ~cipv_call.in_lane[i]
                /\ cipv_call.cipv_index # i - 1

\* between two detected lane lines, an object without size and an object
\* with its nearest corner behind the car are both nearer than the object
\* the call selects
UnusableWitness ==
    /\ cipv_call.valid
    /\ Len(egolane_ground.left_line) = 3
    /\ \E i, j, k \in 1..Len(objects) :
          /\ SizeDegenerate(objects[i])
          /\ ~SizeDegenerate(objects[j])
          /\ NearestCornerX(objects[j], cipv_call.centers[j]) < 0
          /\ objects[j].center[1] > 0
          /\ cipv_call.cipv_index = k - 1
          /\ objects[k].b_cipv
          /\ objects[i].center[1] < objects[k].center[1]
          /\ objects[j].center[1] < objects[k].center[1]

\* C18: in a call with no valid ego lane line and a positive velocity, every
\* object with a size whose near edge is ahead of the car with both ends
\* strictly between y = -EGO_CAR_HALF_VIRTUAL_LANE and
\* y = +EGO_CAR_HALF_VIRTUAL_LANE is reported in the lane, and the call flags
\* some object.
NoLaneFallbackYieldsCipv ==
    (/\ cipv_call.valid
     /\ ~GetEgoLane(lane_objects).b_left_valid
     /\ ~GetEgoLane(lane_objects).b_right_valid
     /\ options.velocity > 0)
    =>  \A i \in 1..Len(objects) :
            LET edge == FindClosestEdgeOfObjectGround(objects[i],
                                                      cipv_call.centers[i])
            IN  (/\ ~SizeDegenerate(objects[i])
                 /\ edge.ok
                 /\ edge.start_point[1] >= 0 /\ edge.end_point[1] >= 0
                 /\ Abs(edge.start_point[2]) < EGO_CAR_HALF_VIRTUAL_LANE
                 /\ Abs(edge.end_point[2]) < EGO_CAR_HALF_VIRTUAL_LANE)
                => /\ cipv_call.in_lane[i]
                   /\ cipv_call.cipv_index >= 0
                   /\ objects[cipv_call.cipv_index + 1].b_cipv

(***************************************************************************)
(* SpecLists: DetermineCipv called frame after frame, the tracker handing  *)
(* over a fresh object list, of any length up to NumObjects, in between.   *)
(***************************************************************************)
FreshObjectLists ==
    UNION { [1..n -> { WithMeasurement([track_id |-> 0, b_cipv |-> FALSE], m) :
                         m \in CipvMeasurements }] : n \in 0..NumObjects }

\* the objects of a frame are numbered by their place in the list
NewObjectList ==
    /\ \E list \in FreshObjectLists :
          objects' = [i \in 1..Len(list) |-> [list[i] EXCEPT !.track_id = i]]
    /\ cipv_call' = NoCipvCall
    /\ egolane_ground' = EmptyEgoLane
    /\ UNCHANGED << cipvMembers, lane_objects, options, old_cipv_index,
                    dropsState, geoState >>

InitLists ==
    /\ MembersInitialized
    /\ lane_objects = << LaneLine("EGO_LEFT", StraightLine(4, 3)),
                         LaneLine("EGO_RIGHT", StraightLine(-4, 3)) >>
    /\ options = [yaw_rate |-> 0, velocity |-> MaxVelocity]
    /\ objects = << >>
    /\ CipvIdle
    /\ DropsIdle
    /\ GeoIdle

NextLists == NewObjectList \/ DetermineCipv

SpecLists == InitLists /\ [][NextLists]_vars

\* C16: whenever a call clears the flag of the previously selected object,
\* the persisted index is an index of the list of that call.
PreviousIndexInRange ==
    (cipv_call.valid /\ ClearsOld(cipv_call.old, cipv_call.cipv_index)) =>
        0 <= cipv_call.old /\ cipv_call.old < Len(objects)

(***************************************************************************)
(* SpecDrops: CollectDrops called frame after frame, the tracker changing  *)
(* the object list in between.                                             *)
(***************************************************************************)
InitDrops ==
    /\ MembersInitialized
    /\ lane_objects = << >>
    /\ options = [yaw_rate |-> 0, velocity |-> MaxVelocity]
    /\ objects = << >>
    /\ CipvIdle
    /\ DropsIdle
    /\ GeoIdle

NextDrops == TrackerFrame \/ CollectDrops

SpecDrops == InitDrops /\ [][NextDrops]_vars

\* C4: a track seen by CollectDrops and then absent for exactly
\* MAX_ALLOWED_SKIP_OBJECT processed frames in a row has lost its history and
\* counter; after fewer absent frames both are still there, the counter
\* holding the number of absent frames (zero right after a sighting).
EvictionThreshold ==
    \A id \in DOMAIN absent_run :
        IF absent_run[id] >= MAX_ALLOWED_SKIP_OBJECT
        THEN /\ id \notin DOMAIN object_trackjectories_
             /\ id \notin DOMAIN object_id_skip_count_
        ELSE /\ id \in DOMAIN object_trackjectories_
             /\ id \in DOMAIN object_id_skip_count_
             /\ object_id_skip_count_[id] = absent_run[id]

CentersOf(objs, id) ==
    LET mine == SelectSeq(objs, LAMBDA o : o.track_id = id)
    IN  [i \in 1..Len(mine) |-> Pt(mine[i].center[1], mine[i].center[2])]

LastOf(seq, n) == SubSeq(seq, Len(seq) - n + 1, Len(seq))

\* C5: no history is ever longer than DROPS_HISTORY_SIZE, and the history of
\* a track seen in a processed frame is the old history followed by the new
\* positions, cut from the front down to DROPS_HISTORY_SIZE positions.
HistoryBound ==
    /\ \A id \in DOMAIN object_trackjectories_ :
          Len(object_trackjectories_[id]) <= DROPS_HISTORY_SIZE
    /\ (drops_call.valid /\ drops_call.result) =>
          \A id \in TrackIds(objects) :
             LET all == TrajAt(drops_call.pre_traj, id) \o CentersOf(objects, id)
             IN  /\ id \in DOMAIN object_trackjectories_
                 /\ object_trackjectories_[id] =
                       IF Len(all) <= DROPS_HISTORY_SIZE THEN all
                       ELSE LastOf(all, DROPS_HISTORY_SIZE)

\* C13: in a processed call, every motion-buffer index used to re-project a
\* history point lies in 0 .. motion_size - 1.
MotionIndexInRange ==
    (drops_call.valid /\ drops_call.result) =>
        \A index \in drops_call.motion_index :
            0 <= index /\ index <= drops_call.motion_size - 1

\* a track whose history was full, holding two different positions, has been
\* seen once more: the oldest position is gone, the others moved up
HistoryBoundWitness ==
    /\ drops_call.valid /\ drops_call.result
    /\ \E id \in TrackIds(objects) :
          /\ id \in DOMAIN drops_call.pre_traj
          /\ Len(drops_call.pre_traj[id]) = DROPS_HISTORY_SIZE
          /\ drops_call.pre_traj[id][1] # drops_call.pre_traj[id][2]
          /\ Len(CentersOf(objects, id)) = 1
          /\ object_trackjectories_[id] =
                Append(Tail(drops_call.pre_traj[id]), CentersOf(objects, id)[1])

\* C6: a call with an empty motion buffer returns false and leaves every
\* history and every skip counter as they were.
EmptyMotionNoOp ==
    (drops_call.valid /\ drops_call.motion_size = 0) =>
        /\ drops_call.result = FALSE
        /\ object_trackjectories_ = drops_call.pre_traj
        /\ object_id_skip_count_ = drops_call.pre_skip

\* such a call was made with a new track in the list, a known track in the
\* list and a known track missing from it
EmptyMotionWitness ==
    /\ drops_call.valid /\ drops_call.motion_size = 0
    /\ drops_call.result = FALSE
    /\ \E id \in TrackIds(objects) : id \notin DOMAIN object_trackjectories_
    /\ \E id \in DOMAIN object_trackjectories_ : id \notin TrackIds(objects)

\* C19: the tracks that have a history are the tracks that have a skip
\* counter, every history holds at least one position, and every counter is
\* at least 0 and below MAX_ALLOWED_SKIP_OBJECT; this holds after every
\* call, processed or not.
MapsInStep ==
    /\ DOMAIN object_trackjectories_ = DOMAIN object_id_skip_count_
    /\ \A id \in DOMAIN object_trackjectories_ :
          /\ Len(object_trackjectories_[id]) >= 1
          /\ 0 <= object_id_skip_count_[id]
          /\ object_id_skip_count_[id] < MAX_ALLOWED_SKIP_OBJECT

\* a processed call erased one track and left another one a single absent
\* frame short of the limit
MapsInStepWitness ==
    /\ drops_call.valid /\ drops_call.result
    /\ \E id \in DOMAIN drops_call.pre_traj :
          /\ id \notin DOMAIN object_trackjectories_
          /\ id \notin DOMAIN object_id_skip_count_
    /\ \E id \in DOMAIN object_trackjectories_ :
          /\ object_id_skip_count_[id] = MAX_ALLOWED_SKIP_OBJECT - 1
          /\ Len(object_trackjectories_[id]) >= 1

(***************************************************************************)
(* SpecSession: DetermineCipv and CollectDrops called in any order on the  *)
(* object list of the frame, the tracker handing over the next list in     *)
(* between.                                                                *)
(***************************************************************************)
SessionTrackIds == {1, 2}

\* lists of objects with different track ids, all in the lane at x = 6
SessionObjectLists ==
    { list \in UNION { [1..n -> SessionTrackIds] :
                         n \in 0..Cardinality(SessionTrackIds) } :
        \A i, j \in 1..Len(list) : list[i] = list[j] => i = j }

SessionFrame ==
    /\ \E list \in SessionObjectLists :
          objects' =
            [i \in 1..Len(list) |->
               WithMeasurement([track_id |-> list[i], b_cipv |-> FALSE],
                   Measurement(<< 4, 2, 2 >>, Pt(6, 0), Box(8, 10, 4, 4), 0,
                               << 0, 0, 1 >>))]
    /\ cipv_call' = NoCipvCall
    /\ drops_call' = NoDropsCall
    /\ egolane_ground' = EmptyEgoLane
    /\ UNCHANGED << cipvMembers, lane_objects, options, old_cipv_index,
                    object_trackjectories_, object_id_skip_count_, absent_run,
                    geoState >>

InitSession ==
    /\ MembersInitialized
    /\ lane_objects = << LaneLine("EGO_LEFT", StraightLine(4, 3)),
                         LaneLine("EGO_RIGHT", StraightLine(-4, 3)) >>
    /\ options = [yaw_rate |-> 0, velocity |-> MaxVelocity]
    /\ objects = << >>
    /\ CipvIdle
    /\ DropsIdle
    /\ GeoIdle

NextSession == SessionFrame \/ DetermineCipv \/ CollectDrops

SpecSession == InitSession /\ [][NextSession]_vars

\* the object with its CIPV flag taken out
WithoutFlag(object) == [object EXCEPT !.b_cipv = FALSE]

DriftingLine(y, n, slope) == [j \in 1..n |-> Pt(10 * (j - 1), y + slope * (j - 1))]

SideInputs(pos_type) ==
    { << >> }
    \cup { << LaneLine(pos_type, DriftingLine(y, 1, 0)) >> :
             y \in {-MaxLaneY, MaxLaneY} }
    \cup { << LaneLine(pos_type, DriftingLine(y, n, slope)) >> :
             y \in -MaxLaneY..MaxLaneY, n \in 2..3, slope \in 0..1 }

LaneInputs ==
    { l \o r : l \in SideInputs("EGO_LEFT"), r \in SideInputs("EGO_RIGHT") }

InitLane ==
    /\ MembersInitialized
    /\ lane_objects \in LaneInputs
    /\ \E v \in 0..MaxVelocity : options = [yaw_rate |-> 0, velocity |-> v]
    /\ objects = << >>
    /\ CipvIdle
    /\ DropsIdle
    /\ GeoIdle

ApplyElongateEgoLane ==
    /\ geo_out.kind = "none"
    /\ LET g == GetEgoLane(lane_objects)
       IN  /\ egolane_ground' =
                ElongateEgoLane(g.b_left_valid, g.b_right_valid,
                                options.yaw_rate, options.velocity,
                                g.egolane_ground, time_unit_,
                                b_image_based_cipv_)
           /\ geo_out' = [kind |-> "lane",
                          b_left_valid |-> g.b_left_valid,
                          b_right_valid |-> g.b_right_valid,
                          detected |-> g.egolane_ground]
    /\ UNCHANGED << cipvMembers, frameInputs, old_cipv_index, cipv_call,
                    dropsState, geo_in >>

NextLane == ApplyElongateEgoLane

SpecLane == InitLane /\ [][NextLane]_vars

ConstantY(line, r) == \A i \in 1..Len(line) : line[i][2] = r

RightOnlyAt(r) ==
    /\ geo_out.kind = "lane"
    /\ ~geo_out.b_left_valid /\ geo_out.b_right_valid
    /\ ConstantY(geo_out.detected.right_line, r)

\* C7 as stated: with only a right boundary, at constant y = r, the left
\* boundary has the points of the right one at y = -(|r| + half lane width).
VirtualLeftAtMinusOffset ==
    \A r \in -MaxLaneY..MaxLaneY :
        RightOnlyAt(r) =>
            /\ Len(egolane_ground.left_line) = Len(egolane_ground.right_line)
            /\ \A i \in 1..Len(egolane_ground.left_line) :
                  /\ egolane_ground.left_line[i][1] =
                        egolane_ground.right_line[i][1]
                  /\ egolane_ground.left_line[i][2] =
                        -(Abs(r) + EGO_CAR_HALF_VIRTUAL_LANE)

\* C7 as amended: the left boundary has the points of the right one moved by
\* the offset, that is at y = r - (|r| + half lane width).
VirtualLeftShiftedByOffset ==
    \A r \in -MaxLaneY..MaxLaneY :
        RightOnlyAt(r) =>
            /\ Len(egolane_ground.left_line) = Len(egolane_ground.right_line)
            /\ egolane_ground.right_line = geo_out.detected.right_line
            /\ \A i \in 1..Len(egolane_ground.left_line) :
                  /\ egolane_ground.left_line[i][1] =
                        egolane_ground.right_line[i][1]
                  /\ egolane_ground.left_line[i][2] =
                        r - (Abs(r) + EGO_CAR_HALF_VIRTUAL_LANE)

\* a right boundary of three points at y = -4 got its left boundary at -10
VirtualLeftWitness ==
    /\ RightOnlyAt(-MaxLaneY)
    /\ Len(egolane_ground.left_line) = 3
    /\ egolane_ground.left_line[3] =
          Pt(20, -MaxLaneY - (MaxLaneY + EGO_CAR_HALF_VIRTUAL_LANE))

\* C8: with no valid boundary there are 24 left/right pairs, for the ticks
\* 0, 5, ..., 115, at y = +/- half lane width and x = tick * time unit *
\* velocity.
NoLaneFallbackShape ==
    (geo_out.kind = "lane" /\ ~geo_out.b_left_valid /\ ~geo_out.b_right_valid)
    =>  /\ Len(egolane_ground.left_line) = 24
        /\ Len(egolane_ground.right_line) = 24
        /\ \A k \in 1..24 :
              /\ egolane_ground.left_line[k] =
                    Pt(5 * (k - 1) * time_unit_ * options.velocity,
                       EGO_CAR_HALF_VIRTUAL_LANE)
              /\ egolane_ground.right_line[k] =
                    Pt(5 * (k - 1) * time_unit_ * options.velocity,
                       -EGO_CAR_HALF_VIRTUAL_LANE)

\* C17: with exactly one detected boundary, a right one at y <= 0 or a left
\* one at y >= 0, the elongated ground lane has its left boundary strictly
\* to the left of its right boundary at every point index.
SynthesizedSideCorrect ==
    (/\ geo_out.kind = "lane"
     /\ \/ /\ ~geo_out.b_left_valid /\ geo_out.b_right_valid
           /\ \A i \in 1..Len(geo_out.detected.right_line) :
                 geo_out.detected.right_line[i][2] <= 0
        \/ /\ geo_out.b_left_valid /\ ~geo_out.b_right_valid
           /\ \A i \in 1..Len(geo_out.detected.left_line) :
                 geo_out.detected.left_line[i][2] >= 0)
    =>  /\ Len(egolane_ground.left_line) = Len(egolane_ground.right_line)
        /\ \A i \in 1..Len(egolane_ground.left_line) :
              egolane_ground.left_line[i][2] > egolane_ground.right_line[i][2]

(***************************************************************************)
(* SpecGeom: IsPointLeftOfLine and the containment test applied to points, *)
(* objects and lanes drawn from small sets.                                *)
(***************************************************************************)
GeomPoints == { Pt(x, y) : x \in {0, 5, 10}, y \in {-1, 0, 1, 5} }

GeomSegments ==
    { << Pt(0, 0), Pt(10, 0) >>, << Pt(10, 0), Pt(0, 0) >>,
      << Pt(0, 0), Pt(10, 10) >>, << Pt(5, -5), Pt(5, 5) >> }

\* straight lane; narrow straight lane; left line bending away; lane
\* with a repeated point; lane with a left line of one point; wide lane;
\* lane whose right line is farther away than MAX_DIST_OBJECT_TO_LANE_METER
GeomLanes ==
    { [left_line |-> StraightLine(4, 3), right_line |-> StraightLine(-4, 3)],
      [left_line |-> StraightLine(1, 3), right_line |-> StraightLine(-1, 3)],
      [left_line |-> << Pt(0, 4), Pt(10, 6), Pt(20, 6) >>,
       right_line |-> << Pt(0, -4), Pt(10, -6), Pt(20, -6) >>],
      [left_line |-> << Pt(0, 4), Pt(0, 4), Pt(20, 4) >>,
       right_line |-> << Pt(0, -4), Pt(20, -4), Pt(20, -4) >>],
      [left_line |-> StraightLine(4, 1), right_line |-> StraightLine(-4, 3)],
      [left_line |-> StraightLine(8, 3), right_line |-> StraightLine(-8, 3)],
      [left_line |-> StraightLine(4, 3),
       right_line |-> StraightLine(-(MAX_DIST_OBJECT_TO_LANE_METER + 10), 3)] }

\* the measurements of SpecCipv and an object wider than
\* MAX_VEHICLE_WIDTH_METER
GeomMeasurements ==
    CipvMeasurements
    \cup { Measurement(<< 4, MAX_VEHICLE_WIDTH_METER + 2, 2 >>, Pt(6, 0),
                       Box(8, 10, 4, 4), 0, << 0, 0, 1 >>) }

GeomObjects ==
    { WithMeasurement([track_id |-> 1, b_cipv |-> FALSE], m) :
        m \in GeomMeasurements }

InitGeom ==
    /\ MembersInitialized
    /\ lane_objects = << >>
    /\ options = [yaw_rate |-> 0, velocity |-> MaxVelocity]
    /\ objects = << >>
    /\ CipvIdle
    /\ DropsIdle
    /\ \/ \E p \in GeomPoints, seg \in GeomSegments :
             geo_in = [kind |-> "point", point |-> p,
                       line_seg_start_point |-> seg[1],
                       line_seg_end_point |-> seg[2]]
       \/ \E o \in GeomObjects, lane \in GeomLanes,
             x \in {2, 7}, y \in -MaxCenterY..MaxCenterY :
             geo_in = [kind |-> "object", object |-> o, center |-> Pt(x, y),
                       lane |-> lane]
    /\ geo_out = NoGeoOut

ApplyIsPointLeftOfLine ==
    /\ geo_in.kind = "point"
    /\ geo_out.kind = "none"
    /\ geo_out' = [kind |-> "point",
                   left |-> IsPointLeftOfLine(geo_in.point,
                                              geo_in.line_seg_start_point,
                                              geo_in.line_seg_end_point)]
    /\ UNCHANGED << cipvMembers, frameInputs, cipvState, dropsState, geo_in >>

ApplyIsObjectInTheLaneGround ==
    /\ geo_in.kind = "object"
    /\ geo_out.kind = "none"
    /\ LET edge == FindClosestEdgeOfObjectGround(geo_in.object, geo_in.center)
       IN  geo_out' = [kind |-> "object", edge |-> edge,
                       test |-> EdgeInTheLaneGround(edge, geo_in.lane),
                       result |-> IsObjectInTheLaneGround(geo_in.object,
                                      geo_in.center, geo_in.lane)]
    /\ UNCHANGED << cipvMembers, frameInputs, cipvState, dropsState, geo_in >>

NextGeom == ApplyIsPointLeftOfLine \/ ApplyIsObjectInTheLaneGround

SpecGeom == InitGeom /\ [][NextGeom]_vars

\* p lies on the segment from s to e
OnSegment(p, s, e) ==
    /\ (e[1] - s[1]) * (p[2] - s[2]) = (e[2] - s[2]) * (p[1] - s[1])
    /\ (p[1] - s[1]) * (e[1] - s[1]) + (p[2] - s[2]) * (e[2] - s[2]) >= 0
    /\ (p[1] - e[1]) * (s[1] - e[1]) + (p[2] - e[2]) * (s[2] - e[2]) >= 0

\* C9: IsPointLeftOfLine is true exactly for a strictly positive cross
\* product, so a point on the segment is not left; in the containment test an
\* end point on its nearest left segment makes the left side clear, a start
\* point on its nearest right segment leaves the right side not clear.
BoundaryTieRule ==
    /\ geo_out.kind = "point" =>
          LET p == geo_in.point
              s == geo_in.line_seg_start_point
              e == geo_in.line_seg_end_point
          IN  /\ geo_out.left <=>
                    (e[1] - s[1]) * (p[2] - s[2])
                        - (e[2] - s[2]) * (p[1] - s[1]) > 0
              /\ OnSegment(p, s, e) => ~geo_out.left
    /\ (geo_out.kind = "object" /\ geo_out.edge.ok) =>
          LET t == geo_out.test
              ll == geo_in.lane.left_line
              rl == geo_in.lane.right_line
          IN  /\ (/\ t.left_index >= 0
                  /\ OnSegment(geo_out.edge.end_point, ll[t.left_index + 1],
                               ll[t.left_index + 2]))
                  => t.b_left_lane_clear
              /\ (/\ t.right_index >= 0
                  /\ OnSegment(geo_out.edge.start_point, rl[t.right_index + 1],
                               rl[t.right_index + 2]))
                  => ~t.b_right_lane_clear /\ ~geo_out.result

\* an object to the right of the lane whose edge starts on the right line,
\* away from the line points: left side clear, right side not clear, not in
\* the lane
BoundaryTieWitness ==
    /\ geo_out.kind = "object" /\ geo_out.edge.ok
    /\ geo_out.test.right_index >= 0
    /\ OnSegment(geo_out.edge.start_point,
                 geo_in.lane.right_line[geo_out.test.right_index + 1],
                 geo_in.lane.right_line[geo_out.test.right_index + 2])
    /\ geo_out.edge.start_point[1] \notin {0, 10, 20}
    /\ geo_out.test.b_left_lane_clear
    /\ ~geo_out.test.b_right_lane_clear
    /\ ~geo_out.result

\* the distance as a whole number when its square is one, -1 otherwise
ExactDistance(f) ==
    IF ~f.ok THEN -1
    ELSE LET roots == { r \in 0..MAX_FLOAT : r * r * f.d = f.n }
         IN  IF roots = {} THEN -1 ELSE CHOOSE r \in roots : TRUE

\* distance from a point to the nearest segment of a lane line having one
MeasuredDistance(point, line_point) ==
    LET s == ClosestSegment(point, line_point, 0, NoSegment)
    IN  IF s.closest_index >= 0 THEN ExactDistance(s.shortest_distance)
        ELSE -1

\* C11: when the four distances from the near edge to the lane lines are
\* measured, the containment test answers false as soon as one of them is
\* above MAX_DIST_OBJECT_TO_LANE_METER, or the start and end distances to the
\* same line differ by more than MAX_VEHICLE_WIDTH_METER.
DistanceSanityGate ==
    (geo_out.kind = "object" /\ geo_out.edge.ok) =>
        LET start_right == MeasuredDistance(geo_out.edge.start_point,
                                            geo_in.lane.right_line)
            start_left == MeasuredDistance(geo_out.edge.start_point,
                                           geo_in.lane.left_line)
            end_right == MeasuredDistance(geo_out.edge.end_point,
                                          geo_in.lane.right_line)
            end_left == MeasuredDistance(geo_out.edge.end_point,
                                         geo_in.lane.left_line)
        IN  (/\ start_right >= 0 /\ start_left >= 0
             /\ end_right >= 0 /\ end_left >= 0
             /\ \/ start_right > MAX_DIST_OBJECT_TO_LANE_METER
                \/ start_left > MAX_DIST_OBJECT_TO_LANE_METER
                \/ end_right > MAX_DIST_OBJECT_TO_LANE_METER
                \/ end_left > MAX_DIST_OBJECT_TO_LANE_METER
                \/ Abs(start_right - end_right) > MAX_VEHICLE_WIDTH_METER
                \/ Abs(end_left - start_left) > MAX_VEHICLE_WIDTH_METER)
            => ~geo_out.result

(***************************************************************************)
(* SpecInit: Init called on a freshly constructed Cipv.                    *)
(***************************************************************************)
Matrices ==
    { << << a[1], a[2], a[3] >>, << a[4], a[5], a[6] >>,
         << a[7], a[8], a[9] >> >> : a \in [1..9 -> 0..MaxEntry] }

\* Cipv::Cipv() sets no member
InitConstructed ==
    /\ b_image_based_cipv_ = "unset"
    /\ time_unit_ = "unset"
    /\ homography_im2car_ = "unset"
    /\ homography_car2im_ = "unset"
    /\ init_result = [called |-> FALSE, result |-> FALSE]
    /\ lane_objects = << >>
    /\ options = [yaw_rate |-> 0, velocity |-> MaxVelocity]
    /\ objects = << >>
    /\ CipvIdle
    /\ DropsIdle
    /\ GeoIdle

CallInit ==
    /\ ~init_result.called
    /\ \E m \in Matrices : CipvInit(m)
    /\ UNCHANGED << frameInputs, cipvState, dropsState, geoState >>

NextInit == CallInit

SpecInit == InitConstructed /\ [][NextInit]_vars

\* C10: Init returns failure for every matrix of determinant zero and
\* success only for invertible matrices.
InitFailsOnSingular ==
    init_result.called =>
        (init_result.result = TRUE <=> Det3(homography_im2car_) # 0)

====
